---- MODULE Spec2Model ----
(***************************************************************************)
(* State-machine model of quicknlp's HRED model (models/hred.py) and of    *)
(* the attention decoder (modules/attention_decoder.py).                   *)
(*                                                                         *)
(* Tensors are abstracted to a scalar content value in 0..ValMod-1 plus    *)
(* the sizes of the axes the code looks at (time steps, batch).  A         *)
(* recurrent state entry is a record [pair, h, c]: pair = FALSE is a       *)
(* single hidden tensor, pair = TRUE a (hidden, cell) tuple.               *)
(***************************************************************************)
EXTENDS Integers, Sequences, FiniteSets, TLC

\* ------------------------------------------------------------- bounds
MaxLayers == 2
MaxT == 2
MaxTokens == 2
MaxBeams == 2
MaxBatch == 1
MaxKeyBatch == 4
ValMod == 2
PrScale == 2

\* ntoken and eos_token constructor arguments of HRED
ntoken == 2
eos_token == 1

\* session_constraint constructor argument, at its default
session_constraint == FALSE

KnownCellTypes == {"gru", "lstm"}
CellTypes == KnownCellTypes \cup {"rnn"}

Values == 0 .. (ValMod - 1)
Tokens == 0 .. (ntoken - 1)
\* pr_force is a scalar in [0,1]; the model holds pr_force * PrScale
PrValues == 0 .. PrScale

\* ------------------------------------------------------ tensor values
Single(h) == [pair |-> FALSE, h |-> h, c |-> 0]
Pair(h, c) == [pair |-> TRUE, h |-> h, c |-> c]
NoTensor == [set |-> FALSE, val |-> 0]
Tensor(v) == [set |-> TRUE, val |-> v]
NoBeams == [set |-> FALSE, k |-> 0, seq |-> <<>>]
NoKeys == [set |-> FALSE, bs |-> 0, val |-> 0]

Take(s, n) == SubSeq(s, 1, IF n < Len(s) THEN n ELSE Len(s))

\* --------------------------------------------------- collaborators
\* a cell type other than "gru" keeps (hidden, cell) state
Paired(ct) == ct # "gru"

\* RNNLayers.reset: one learned/default initial entry per layer
ResetHidden(ct, L) ==
  [i \in 1 .. L |-> IF Paired(ct) THEN Pair(i % ValMod, i % ValMod)
                                  ELSE Single(i % ValMod)]

\* HREDEncoder.forward: the session summary (last layer, last step)
Encoder(ct, enc) ==
  LET s == (enc.val + 1) % ValMod
  IN IF Paired(ct) THEN Pair(s, (s + 1) % ValMod) ELSE Single(s)

\* one recurrent layer: (output, new_h) = rnn(output, h)
RnnCell(x, e) ==
  LET h2 == (e.h + x + 1) % ValMod
  IN [out |-> h2,
      new |-> IF e.pair THEN Pair(h2, (e.c + x) % ValMod) ELSE Single(h2)]

\* inter-layer dropout with its mask held fixed
Drop(x) == x

\* embedding of a token, concatenated with the constraint vector and the
\* attention context when there are any
AttnOut(q, keys) == IF keys.set THEN (q + keys.val) % ValMod ELSE 0
StepInput(tok, cons, keys) ==
  (tok + (IF cons.set THEN cons.val ELSE 0) + AttnOut(tok, keys)) % ValMod

\* projection to vocabulary logits, and the arg-max token of a logits row
Projection(o) == o
Argmax(logits) == logits % ntoken

\* ------------------------------------------- attention_decoder.py
\* AttentionDecoder._rnn_step
RECURSIVE RnnLayers(_, _, _, _, _)
RnnLayers(L, i, output, hidden, acc) ==
  IF i > L THEN acc
  ELSE LET r == RnnCell(output, hidden[i])
           o == IF i # L THEN Drop(r.out) ELSE r.out
       IN RnnLayers(L, i + 1, o, hidden,
                    [outputs |-> Append(acc.outputs, o),
                     hidden |-> Append(acc.hidden, r.new)])

RnnStep(L, x, hidden) ==
  RnnLayers(L, 1, x, hidden, [outputs |-> <<>>, hidden |-> <<>>])

\* ------------------------------------------------------- hred.py
\* HRED.decoder_state_linear
Linear(x) == (x + 1) % ValMod

\* HRED.map_session_hidden_state_to_decoder_init_state
MapSession_AllLayers(ct, sc, hidden, lo) ==
  [state |-> [i \in 1 .. Len(hidden) |->
                IF ct = "gru" THEN Single(Linear(lo.h))
                ELSE Pair(Linear(lo.h), Linear(lo.c))],
   constraints |-> IF sc THEN Tensor(lo.h) ELSE NoTensor]

MapSession_SingleInElse(ct, sc, hidden, lo) ==
  [state |-> [hidden EXCEPT ![1] = Single(Linear(lo.h))],
   constraints |-> IF sc THEN Tensor(lo.h) ELSE NoTensor]

MapSession(ct, sc, hidden, lo) ==
  IF ct = "gru"
  THEN [state |-> [hidden EXCEPT ![1] = Single(Linear(lo.h))],
        constraints |-> IF sc THEN Tensor(lo.h) ELSE NoTensor]
  ELSE [state |-> [hidden EXCEPT ![1] = Pair(Linear(lo.h), Linear(lo.c))],
        constraints |-> IF sc THEN Tensor(lo.h) ELSE NoTensor]

\* --------------------------------------------------- base Decoder
\* scheduled sampling: whether step t is fed the ground-truth token
AllForced == [t \in 1 .. MaxT |-> TRUE]
Forced(prf, coin) == prf = PrScale \/ (prf > 0 /\ coin)

\* one decoder step on token tok from state hid: the new state and the
\* logits projected from the last layer's output
StepOut(L, r) == [hidden |-> r.hidden, logits |-> Projection(r.outputs[L])]
DecStep(cx, tok, hid) ==
  StepOut(cx.L, RnnStep(cx.L, StepInput(tok, cx.cons, cx.keys), hid))

\* the loop variables after a step that was fed tok and feeds nxt next
Acc(a, tok, s, nxt) ==
  [t |-> a.t + 1, hidden |-> s.hidden, outs |-> Append(a.outs, s.logits),
   fed |-> Append(a.fed, tok), seq |-> Append(a.seq, Argmax(s.logits)),
   prev |-> nxt]
A0(cx, hidden) ==
  [t |-> 1, hidden |-> hidden, outs |-> <<>>, fed |-> <<>>,
   seq |-> <<cx.inputs[1]>>, prev |-> cx.inputs[1]]

\* Decoder, teacher-forced path (num_beams = 0): one step per target token
TFTok(cx, a) ==
  IF a.t = 1 \/ ~cx.training \/ Forced(cx.prf, cx.coins[a.t])
  THEN cx.inputs[a.t] ELSE a.prev
TFAcc(a, tok, s) == Acc(a, tok, s, Argmax(s.logits))
TFStep(cx, a, tok) == TFAcc(a, tok, DecStep(cx, tok, a.hidden))
RECURSIVE TFLoop(_, _)
TFLoop(cx, a) ==
  IF a.t > Len(cx.inputs) THEN a ELSE TFLoop(cx, TFStep(cx, a, TFTok(cx, a)))

\* Decoder, generation path (num_beams > 0): starts from the start token and
\* stops when the end token is emitted or after max_tokens steps
GenNxt(cx, a, pred) ==
  IF cx.training /\ a.t + 1 <= Len(cx.inputs) /\ Forced(cx.prf, cx.coins[a.t + 1])
  THEN cx.inputs[a.t + 1] ELSE pred
GenAcc(cx, a, s) == Acc(a, a.prev, s, GenNxt(cx, a, Argmax(s.logits)))
GenStep(cx, a) == GenAcc(cx, a, DecStep(cx, a.prev, a.hidden))
GenDone(cx, a2) == a2.seq[Len(a2.seq)] = eos_token \/ a2.t > cx.maxtok
RECURSIVE GenLoop(_, _)
GenCont(cx, a2) == IF GenDone(cx, a2) THEN a2 ELSE GenLoop(cx, a2)
GenLoop(cx, a) == GenCont(cx, GenStep(cx, a))

\* Decoder.forward: dispatch on the beam count
TeacherOut(r, bo) ==
  [mode |-> "teacher", outputs |-> r.outs, hidden |-> r.hidden,
   fed |-> r.fed, beam_outputs |-> bo, beam_written |-> FALSE]
BeamOut(r, nb) ==
  [mode |-> "beam", outputs |-> r.outs, hidden |-> r.hidden, fed |-> r.fed,
   beam_outputs |-> [set |-> TRUE, k |-> nb, seq |-> r.seq],
   beam_written |-> TRUE]
DecoderForward(cx, hidden, nb, bo) ==
  IF nb = 0 THEN TeacherOut(TFLoop(cx, A0(cx, hidden)), bo)
            ELSE BeamOut(GenLoop(cx, A0(cx, hidden)), nb)

\* ------------------------------------------------- HRED.decoding
\* the beam count handed to the decoder
BeamCount_ForceBoundary(training, prf, num_beams) ==
  IF training THEN (IF prf <= PrScale THEN 1 ELSE 0) ELSE num_beams

BeamCount(training, prf, num_beams) ==
  IF training THEN (IF prf < PrScale THEN 1 ELSE 0) ELSE num_beams

\* self.decoder.pr_force = self.pr_force, in training mode only
CopyPrForce(training, prf, dpf) == IF training THEN prf ELSE dpf

\* predictions = outputs_dec[:T] if num_beams == 0 else decoder.beam_outputs
SelectPredictions(num_beams, outputs_dec, T, bo) ==
  IF num_beams = 0
  THEN [kind |-> "logits", steps |-> Take(outputs_dec, T), beams |-> NoBeams]
  ELSE [kind |-> "beams", steps |-> <<>>, beams |-> bo]

NoPredictions == [kind |-> "none", steps |-> <<>>, beams |-> NoBeams]

\* c is the call: [cfg, pre, training, prf, enc, dec, num_beams, coins]
DecoderCx(c, cons) ==
  [L |-> c.cfg.L, inputs |-> c.dec.toks, cons |-> cons, keys |-> NoKeys,
   training |-> c.training,
   prf |-> CopyPrForce(c.training, c.prf, c.pre.dpf),
   coins |-> c.coins, maxtok |-> MaxTokens]
DecodingOut(c, out) ==
  [out |-> out,
   predictions |-> SelectPredictions(c.num_beams, out.outputs,
                                     Len(c.dec.toks), out.beam_outputs)]
Decoding(c, state, cons) ==
  DecodingOut(c, DecoderForward(DecoderCx(c, cons), state,
                                BeamCount(c.training, c.prf, c.num_beams),
                                c.pre.bo))

\* ------------------------------------------------- HRED.forward
\* the call raised before anything ran
Raised(c) ==
  [outcome |-> "error", events |-> <<>>, prf |-> c.prf,
   hidden |-> c.pre.hidden, enc_state |-> c.pre.enc_state,
   bo |-> c.pre.bo, dpf |-> c.pre.dpf, nb |-> 0, mode |-> "none",
   fed |-> <<>>, outputs |-> <<>>, beam_written |-> FALSE,
   predictions |-> NoPredictions,
   reset_hidden |-> c.pre.hidden, summary |-> Single(0),
   bridged |-> c.pre.hidden, constraints |-> NoTensor, branch |-> "none"]

\* the call got as far as the decoder, which raised on its inputs
Bridged(c, reset, lo, m) ==
  [Raised(c) EXCEPT
     !.events = <<"reset", "encoder", "bridge", "decoding">>,
     !.hidden = m.state, !.enc_state = lo.h,
     !.reset_hidden = reset, !.summary = lo, !.bridged = m.state,
     !.constraints = m.constraints,
     !.branch = IF c.cfg.ct = "gru" THEN "single" ELSE "paired",
     !.dpf = CopyPrForce(c.training, c.prf, c.pre.dpf),
     !.nb = BeamCount(c.training, c.prf, c.num_beams)]

Decoded(mid, d) ==
  [mid EXCEPT !.outcome = "ok", !.hidden = d.out.hidden,
              !.bo = d.out.beam_outputs, !.mode = d.out.mode,
              !.fed = d.out.fed, !.outputs = d.out.outputs,
              !.beam_written = d.out.beam_written,
              !.predictions = d.predictions]

AfterBridge(c, reset, lo, m) ==
  IF c.dec.bs # c.enc.bs
  THEN Bridged(c, reset, lo, m)
  ELSE Decoded(Bridged(c, reset, lo, m), Decoding(c, m.state, m.constraints))

AfterEncoder(c, reset, lo) ==
  AfterBridge(c, reset, lo, MapSession(c.cfg.ct, c.cfg.sc, reset, lo))

ForwardResult(c) ==
  IF c.enc.rank # 3
  THEN Raised(c)   \* num_utterances, max_sl, bs = encoder_inputs.size()
  ELSE AfterEncoder(c, ResetHidden(c.cfg.ct, c.cfg.L), Encoder(c.cfg.ct, c.enc))

\* ------------------------------------ AttentionDecoder forward paths
\* AttentionDecoder._train_forward: every step calls _rnn_step with the
\* hidden argument of the call; _rnn_step stores the new state in
\* decoder_layer.hidden
ATFAcc(a, s, hidden0) ==
  [t |-> a.t + 1, fed_states |-> Append(a.fed_states, hidden0),
   produced |-> Append(a.produced, s.hidden),
   outs |-> Append(a.outs, s.logits), hidden |-> s.hidden]
RECURSIVE ATFLoop(_, _)
ATFLoop(cx, a) ==
  IF a.t > Len(cx.inputs) THEN a
  ELSE ATFLoop(cx, ATFAcc(a, DecStep(cx, cx.inputs[a.t], cx.hidden0), cx.hidden0))

AttnTrainResult(L, toks, hidden0, ks) ==
  ATFLoop([L |-> L, inputs |-> toks, cons |-> NoTensor, keys |-> ks,
           hidden0 |-> hidden0],
          [t |-> 1, fed_states |-> <<>>, produced |-> <<>>, outs |-> <<>>,
           hidden |-> hidden0])

\* AttentionDecoder._beam_forward: ensure keys exist for all beams
ReplicateKeys(ks, num_beams) ==
  IF ks.set /\ num_beams > 0 THEN [ks EXCEPT !.bs = ks.bs * num_beams] ELSE ks

\* Decoder._beam_forward, reached through super(): a generation run
BeamSearch(L, tok, hidden0, ks) ==
  GenLoop([L |-> L, inputs |-> <<tok>>, cons |-> NoTensor, keys |-> ks,
           training |-> FALSE, prf |-> 0, coins |-> AllForced,
           maxtok |-> MaxTokens],
          [t |-> 1, hidden |-> hidden0, outs |-> <<>>, fed |-> <<>>,
           seq |-> <<tok>>, prev |-> tok])

\* ------------------------------------------------------------ state
VARIABLES
  cell_type, nlayers,             \* constructor arguments kept by the model
  batch,                          \* the (encoder_inputs, decoder_inputs) fed
  training, pr_force,             \* HRED.training, HRED.pr_force
  hidden, enc_state,              \* decoder.hidden, the encoder's state
  beam_outputs, dec_pr_force,     \* decoder.beam_outputs, decoder.pr_force
  last,                           \* the most recent operation on the model
  dl_hidden, keys, key_base, att  \* the attention decoder (declared below)

hred_vars == <<cell_type, nlayers, batch, training, pr_force, hidden,
               enc_state, beam_outputs, dec_pr_force, last>>
att_vars == <<dl_hidden, keys, key_base, att>>
vars == <<hred_vars, att_vars>>

Cfg == [ct |-> cell_type, L |-> nlayers, sc |-> session_constraint]
Pre == [hidden |-> hidden, enc_state |-> enc_state, bo |-> beam_outputs,
        dpf |-> dec_pr_force]
Call(nbm, coins) ==
  [cfg |-> Cfg, pre |-> Pre, training |-> training, prf |-> pr_force,
   enc |-> batch.enc, dec |-> batch.dec, num_beams |-> nbm, coins |-> coins]
FreshPre(cfg) == [hidden |-> ResetHidden(cfg.ct, cfg.L), enc_state |-> 0,
                  bo |-> NoBeams, dpf |-> 0]

\* encoder inputs [num_utterances, sl, bs], and one input of the wrong rank
EncInputs == [rank : {3}, bs : 1 .. MaxBatch, val : {0, 1}]
               \cup {[rank |-> 2, bs |-> 1, val |-> 0]}
TokSeqs == UNION {[1 .. n -> Tokens] : n \in 1 .. MaxT}
\* decoder inputs [sl, bs]; their batch may be one the encoder's is not
DecInputs == [bs : 1 .. (MaxBatch + 1), toks : TokSeqs]
\* the random draws of scheduled sampling, one per step after the first
CoinChoices(tr, prf, T) ==
  IF tr /\ prf > 0 /\ prf < PrScale
  THEN {[t \in 1 .. MaxT |-> IF t \in 2 .. T THEN f[t] ELSE TRUE] :
          f \in [2 .. T -> BOOLEAN]}
  ELSE {AllForced}

\* AttentionDecoder after construction: no keys stored
InitAtt ==
  /\ dl_hidden = ResetHidden(cell_type, nlayers)
  /\ keys = NoKeys
  /\ key_base = 0
  /\ att = [op |-> "init", flags |-> [bridged |-> FALSE, stepped |-> FALSE]]

\* HRED.__init__
InitHRED ==
  /\ cell_type \in CellTypes
  /\ nlayers \in 1 .. MaxLayers
  /\ training = TRUE
  /\ pr_force = PrScale
  /\ hidden = ResetHidden(cell_type, nlayers)
  /\ enc_state = 0
  /\ beam_outputs = NoBeams
  /\ dec_pr_force = 0
  /\ last = [op |-> "init"]

Init ==
  /\ InitHRED
  /\ batch \in [enc : EncInputs, dec : DecInputs]
  /\ InitAtt

\* HRED.forward(encoder_inputs, decoder_inputs, num_beams)
Forward ==
  \E nbm \in 0 .. MaxBeams :
    \E coins \in CoinChoices(training, pr_force, Len(batch.dec.toks)) :
      \E r \in {ForwardResult(Call(nbm, coins))} :
         /\ hidden' = r.hidden
         /\ enc_state' = r.enc_state
         /\ beam_outputs' = r.bo
         /\ dec_pr_force' = r.dpf
         /\ pr_force' = r.prf
         /\ last' = [op |-> "forward", num_beams |-> nbm,
                     training |-> training, prf |-> pr_force,
                     coins |-> coins, r |-> r]
         /\ UNCHANGED <<cell_type, nlayers, batch, training, att_vars>>

\* HRED.reset_encoders(bs)
ResetEncoders ==
  /\ hidden' = ResetHidden(cell_type, nlayers)
  /\ enc_state' = 0
  /\ last' = [op |-> "reset"]
  /\ UNCHANGED <<cell_type, nlayers, batch, training, pr_force,
                 beam_outputs, dec_pr_force, att_vars>>

\* nn.Module.train() / nn.Module.eval()
SetTraining ==
  \E b \in BOOLEAN :
    /\ b # training
    /\ training' = b
    /\ last' = [op |-> "mode"]
    /\ UNCHANGED <<cell_type, nlayers, batch, pr_force, hidden,
                   enc_state, beam_outputs, dec_pr_force, att_vars>>

\* the training controller assigns model.pr_force
SetPrForce ==
  \E p \in PrValues :
    /\ p # pr_force
    /\ pr_force' = p
    /\ last' = [op |-> "pr_force"]
    /\ UNCHANGED <<cell_type, nlayers, batch, training, hidden,
                   enc_state, beam_outputs, dec_pr_force, att_vars>>

Next == Forward \/ ResetEncoders \/ SetTraining \/ SetPrForce

Spec == Init /\ [][Next]_vars

\* ------------------------------------- the attention decoder alone
InitAttn ==
  /\ InitHRED
  /\ batch = [enc |-> [rank |-> 3, bs |-> 1, val |-> 0],
              dec |-> [bs |-> 1, toks |-> <<0>>]]
  /\ InitAtt

Flags(b, st) == [bridged |-> b, stepped |-> st]

\* Decoder.reset(bs)
AttReset ==
  /\ dl_hidden' = ResetHidden(cell_type, nlayers)
  /\ att' = [op |-> "reset", flags |-> Flags(FALSE, FALSE)]
  /\ UNCHANGED <<hred_vars, keys, key_base>>

\* the owning model bridges a session summary into the decoder's state
AttBridge ==
  \E v \in {0, 1} :
    /\ dl_hidden' = MapSession(cell_type, session_constraint, dl_hidden,
                               Encoder(cell_type, [val |-> v])).state
    /\ att' = [op |-> "bridge", flags |-> Flags(TRUE, FALSE)]
    /\ UNCHANGED <<hred_vars, keys, key_base>>

\* the owning model stores the last utterance's outputs as attention keys
StoreKeys ==
  \E B \in 1 .. MaxBatch, v \in {0, 1} :
    /\ keys' = [set |-> TRUE, bs |-> B, val |-> v]
    /\ key_base' = B
    /\ att' = [op |-> "store_keys", flags |-> Flags(FALSE, FALSE)]
    /\ UNCHANGED <<hred_vars, dl_hidden>>

\* AttentionDecoder._rnn_step(output, hidden) on the held state
AttRnnStep ==
  \E x \in Values :
    /\ dl_hidden' = RnnStep(nlayers, x, dl_hidden).hidden
    /\ att' = [op |-> "rnn_step",
               flags |-> Flags(att.op \in {"bridge", "rnn_step"} /\ att.flags.bridged, TRUE)]
    /\ UNCHANGED <<hred_vars, keys, key_base>>

\* AttentionDecoder._train_forward(inputs, hidden), hidden the held state
AttnTrainForward ==
  \E toks \in TokSeqs :
    /\ keys.set
    /\ \E r \in {AttnTrainResult(nlayers, toks, dl_hidden, keys)} :
         /\ dl_hidden' = r.hidden
         /\ att' = [op |-> "train_forward", flags |-> Flags(FALSE, TRUE),
                    T |-> Len(toks), fed_states |-> r.fed_states,
                    produced |-> r.produced, outs |-> r.outs]
    /\ UNCHANGED <<hred_vars, keys, key_base>>

\* AttentionDecoder._beam_forward(inputs, hidden, num_beams)
AttnBeamForward ==
  \E K \in 1 .. MaxBeams, tok \in Tokens :
    /\ keys.set
    /\ keys.bs * K <= MaxKeyBatch
    /\ \E ks \in {ReplicateKeys(keys, K)} :
         \E r \in {BeamSearch(nlayers, tok, dl_hidden, ks)} :
           /\ keys' = ks
           /\ dl_hidden' = r.hidden
           /\ att' = [op |-> "beam_forward", flags |-> Flags(FALSE, TRUE),
                      K |-> K, entry_bs |-> keys.bs, key_axes |-> [i \in 1 .. Len(r.outs) |-> ks.bs]]
    /\ UNCHANGED <<hred_vars, key_base>>

NextAttn ==
  \/ AttReset \/ AttBridge \/ StoreKeys
  \/ AttRnnStep \/ AttnTrainForward \/ AttnBeamForward

SpecAttn == InitAttn /\ [][NextAttn]_vars

\* =============================================================== claims
IsForward == last.op = "forward"
ForwardOk == IsForward /\ last.r.outcome = "ok"
TargetLen == Len(batch.dec.toks)

\* the same call on a model on which no forward call has run before
FreshCall ==
  [cfg |-> Cfg, pre |-> FreshPre(Cfg), training |-> last.training,
   prf |-> last.prf, enc |-> batch.enc, dec |-> batch.dec,
   num_beams |-> last.num_beams, coins |-> last.coins]

\* C1: after every forward call that returns, in either mode and for every
\* pr_force: num_beams = 0 means the decoder ran teacher-forced and the
\* predictions are this call's logits; num_beams > 0 means the decoder ran
\* in beam mode with that beam count and the predictions are the beam output
\* written by this call.
C1_ForwardModeContract ==
  ForwardOk =>
    /\ last.num_beams = 0 =>
         /\ last.r.mode = "teacher"
         /\ last.r.predictions.kind = "logits"
         /\ last.r.predictions.steps = Take(last.r.outputs, TargetLen)
    /\ last.num_beams > 0 =>
         /\ last.r.mode = "beam"
         /\ last.r.nb = last.num_beams
         /\ last.r.predictions.kind = "beams"
         /\ last.r.beam_written
         /\ last.r.predictions.beams = beam_outputs

\* C2: with num_beams = 0 the predictions of a forward call that returns
\* have exactly T steps, T the target length, in both modes and for every
\* pr_force; and AttentionDecoder._train_forward emits one output per step.
C2_LogitsLengthT ==
  /\ (ForwardOk /\ last.num_beams = 0) =>
       /\ last.r.predictions.kind = "logits"
       /\ Len(last.r.predictions.steps) = TargetLen
  /\ att.op = "train_forward" => Len(att.outs) = att.T

\* C3: every forward call resets before the encoder runs and before the
\* state is bridged, and its predictions are those the same call yields on
\* a model with no earlier call: nothing an earlier call left behind
\* influences them.
C3_NoCrossCallLeakage ==
  IsForward =>
    /\ last.r.events # <<>> => SubSeq(last.r.events, 1, 3) = <<"reset", "encoder", "bridge">>
    /\ last.r.predictions = ForwardResult(FreshCall).predictions

\* C4: the bridge changes only entry 0 of the decoder state: entry 0 is the
\* projection of the session summary (each half projected on its own for a
\* paired state), every higher entry is the value reset gave it, and the
\* list keeps one entry per layer.
C4_BridgeOnlyLayerZero ==
  (IsForward /\ last.r.branch # "none") =>
    /\ Len(last.r.bridged) = nlayers
    /\ last.r.bridged[1] =
         (IF cell_type = "gru"
          THEN Single(Linear(last.r.summary.h))
          ELSE Pair(Linear(last.r.summary.h), Linear(last.r.summary.c)))
    /\ \A i \in 2 .. nlayers :
         /\ last.r.bridged[i] = last.r.reset_hidden[i]
         /\ last.r.bridged[i] = ResetHidden(cell_type, nlayers)[i]

C4_Witness ==
  /\ IsForward /\ last.r.branch = "paired" /\ nlayers >= 2
  /\ last.r.summary.h # last.r.summary.c
  /\ last.r.bridged[1] # last.r.reset_hidden[1]
  /\ last.r.bridged[1].h # last.r.bridged[1].c

\* C5: a beam-mode call multiplies the keys' batch axis by its beam count
\* once, for all the steps of its search, and after any sequence of
\* beam-mode calls on keys stored with batch axis B the axis is B or B x K
\* for one beam count K: never a product of several replications.
C5_KeysReplicatedOnce ==
  /\ att.op = "beam_forward" =>
       /\ keys.bs = att.entry_bs * att.K
       /\ \A i \in DOMAIN att.key_axes : att.key_axes[i] = att.entry_bs * att.K
  /\ keys.set => \E k \in 1 .. MaxBeams : keys.bs = key_base * k

\* C6: a training-mode forward call with pr_force = 1.0 runs the decoder
\* with beam count 0 and feeds it the ground-truth token at every step; the
\* model's pr_force is copied to the decoder and is left as it was.
C6_FullTeacherForcing ==
  IsForward =>
    /\ pr_force = last.prf
    /\ (last.training /\ last.r.events # <<>>) => dec_pr_force = last.prf
    /\ (last.training /\ last.prf = PrScale /\ last.r.events # <<>>) =>
         /\ last.r.nb = 0
         /\ last.r.outcome = "ok" =>
              /\ last.r.mode = "teacher"
              /\ last.r.fed = batch.dec.toks

C6_Witness ==
  /\ ForwardOk /\ last.training /\ last.prf = PrScale
  /\ Len(last.r.fed) >= 2
  /\ last.r.fed = batch.dec.toks
  /\ dec_pr_force = PrScale

\* C7: a forward call whose inputs disagree on the batch size, or whose
\* encoder input has the wrong rank, fails before the reset, the encoder,
\* the bridge or the decoder have run.
C7_ShapeErrorBeforeAnyEffect ==
  (IsForward /\ (batch.enc.rank # 3 \/ batch.dec.bs # batch.enc.bs)) =>
    /\ last.r.outcome = "error"
    /\ last.r.events = <<>>

\* C8: no model with a cell type other than the two known ones gets as
\* far as running a forward call, and the paired-state branch of the bridge
\* only ever handles "lstm".
C8_UnknownCellTypeRejected ==
  /\ (IsForward /\ last.r.events # <<>>) => cell_type \in KnownCellTypes
  /\ (IsForward /\ last.r.branch = "paired") => cell_type = "lstm"

\* C9: in AttentionDecoder._train_forward the state fed to the layers at
\* step t >= 2 is the state _rnn_step produced at step t-1, and the state
\* held after the call is the one produced at the last step.
C9_StateThreadedAcrossSteps ==
  att.op = "train_forward" =>
    /\ \A t \in 2 .. att.T : att.fed_states[t] = att.produced[t - 1]
    /\ dl_hidden = att.produced[att.T]

\* C10: after reset and any sequence of bridge calls and decoder steps the
\* decoder state has one entry per layer, all of them single tensors for
\* "gru" and all of them (hidden, cell) pairs otherwise.
StateShapeOk(st) ==
  /\ Len(st) = nlayers
  /\ \A i \in DOMAIN st : st[i].pair = (cell_type # "gru")

C10_DecoderStateShape == StateShapeOk(dl_hidden) /\ StateShapeOk(hidden)

C10_Witness ==
  /\ att.op = "rnn_step" /\ att.flags.bridged /\ att.flags.stepped
  /\ nlayers >= 2 /\ cell_type = "lstm"
  /\ dl_hidden # ResetHidden(cell_type, nlayers)

====
